---- MODULE Spec2Model ----
(***************************************************************************)
(* Model of src/generate_maps.py: the incremental update script that       *)
(* queries new Sentinel-2 images, derives the new observation dates,       *)
(* samples every target field for every new date, renders one layer per    *)
(* date into two maps and persists an observation history plus a           *)
(* last-processed marker.                                                  *)
(*                                                                         *)
(* One run of the script is a sequence of actions Query .. WriteMarker;    *)
(* the files on disk (file_hist, file_marker, file_index, file_ndvi)       *)
(* survive from run to run, everything else is process memory.             *)
(*                                                                         *)
(* Encodings                                                               *)
(*  - a 'system:index' string such as '20250120T012345_..' is a sequence   *)
(*    of nine digits: the eight digits idx[:8] and one digit standing for  *)
(*    the rest of the string (the tile / capture suffix);                  *)
(*  - a feature of collection_info is its 'system:index' value, or the     *)
(*    empty sequence when its properties hold no 'system:index';           *)
(*  - a date string 'YYYY-MM-DD' is the triple <<YYYY, MM, DD>>; Python    *)
(*    compares such zero padded strings field by field, left to right.     *)
(***************************************************************************)
EXTENDS Integers, Sequences, FiniteSets, TLC

VARIABLES
    pc,            \* position of the script; "idle" when no process is running
    last_date,     \* args.last_date of the current run
    features,      \* collection_info['features'] of the current run
    history,       \* the in-memory history dict
    new_dates,     \* the list new_dates
    date_idx,      \* position of the loop over new_dates (1-based)
    field_idx,     \* position of the loop over fields_info['features'] (1-based)
    layer_lai,     \* FeatureGroup LAI_<date> under construction
    layer_ndvi,    \* FeatureGroup NDVI_<date> under construction
    date_pixels,   \* the counter date_pixels of the current date
    m_lai,         \* the in-memory LAI map: its layers and title
    m_ndvi,        \* the in-memory NDVI map
    file_hist,     \* output/observation_history.json
    file_marker,   \* last_processed.txt
    file_index,    \* output/index.html
    file_ndvi,     \* output/ndvi.html
    faults,        \* number of faults of the environment so far: processes
                   \* that died, samplings whose responses were irregular
    samples,       \* log of this run's sampling: one record per field for which
                   \* sampling requests (.sample(..).getInfo()) were issued
    prev_hist,     \* file_hist as it was when this run started
    prev_marker,   \* file_marker as it was when this run started
    prev_index,    \* file_index as it was when this run started
    prev_ndvi      \* file_ndvi as it was when this run started

vars == <<pc, last_date, features, history, new_dates, date_idx, field_idx,
          layer_lai, layer_ndvi, date_pixels, m_lai, m_ndvi,
          file_hist, file_marker, file_index, file_ndvi,
          faults, samples, prev_hist, prev_marker, prev_index, prev_ndvi>>

locals == <<last_date, features, history, new_dates, date_idx, field_idx,
            layer_lai, layer_ndvi, date_pixels, m_lai, m_ndvi>>
files == <<file_hist, file_marker, file_index, file_ndvi>>
ghosts == <<faults, samples, prev_hist, prev_marker, prev_index, prev_ndvi>>

----------------------------------------------------------------------------
(* Bounds of the model *)

\* longest list of features one query returns
MaxCands == 2
\* largest number of pixel features one sample holds
MaxPx == 1
\* largest number of faults of the environment: a process that dies before
\* its end, or a sampling whose responses are irregular (the two samples differ
\* in length, or a pixel feature is not a well-formed point)
MaxFaults == 1

----------------------------------------------------------------------------
(* Values *)

\* A file is a record: state "absent" (the path does not exist), "truncated"
\* (opened with mode 'w', the content not or not fully written) or "written";
\* data is its content when written, and an empty value of its type otherwise.
NoFile(empty) == [state |-> "absent", data |-> empty]
Truncated(empty) == [state |-> "truncated", data |-> empty]
Written(content) == [state |-> "written", data |-> content]

\* the empty function, Python's {}
EmptyDict == [x \in {} |-> 0]

\* faulty variant of Put: the assignment replaces the dict
PutMutant(d, k, v) == [x \in {k} |-> v]

\* d[k] = v
Put(d, k, v) == [x \in (DOMAIN d) \cup {k} |-> IF x = k THEN v ELSE d[x]]

\* args.last_date default, also START_DATE
DefaultLastDate == <<2024, 12, 1>>
\* END_DATE: the day of the run; every image of the catalog is older
END_DATE == <<2025, 3, 1>>

\* 'system:index' values the image service can return
\* (one capture of 2024-12-31, two captures of 2025-01-20)
Catalog ==
    { <<2,0,2,4,1,2,3,1, 1>>,
      <<2,0,2,5,0,1,2,0, 1>>,
      <<2,0,2,5,0,1,2,0, 2>> }

\* a feature whose properties hold no 'system:index'
NoIndexFeature == << >>

\* fields_info['features']: the geometry type of each target field
Fields == << "Polygon", "MultiPolygon", "Polygon" >>

----------------------------------------------------------------------------
(* Pure functions of the script *)

RECURSIVE ToInt(_)
\* int() of a string of digits, as strptime reads a numeric field
ToInt(digits) ==
    IF digits = << >> THEN 0
    ELSE 10 * ToInt(SubSeq(digits, 1, Len(digits) - 1)) + digits[Len(digits)]

\* dt.datetime.strptime(idx[:8], '%Y%m%d').strftime('%Y-%m-%d')
DateStr(idx) ==
    LET head == SubSeq(idx, 1, 8)
    IN  << ToInt(SubSeq(head, 1, 4)), ToInt(SubSeq(head, 5, 6)), ToInt(SubSeq(head, 7, 8)) >>

\* Python's a < b on two 'YYYY-MM-DD' strings
StrLess(a, b) ==
    \/ a[1] < b[1]
    \/ a[1] = b[1] /\ a[2] < b[2]
    \/ a[1] = b[1] /\ a[2] = b[2] /\ a[3] < b[3]

RECURSIVE Insert(_, _)
Insert(s, x) ==
    IF s = << >> THEN << x >>
    ELSE IF StrLess(x, Head(s)) THEN << x >> \o s
    ELSE << Head(s) >> \o Insert(Tail(s), x)

\* faulty variant of Sorted: the list is left in the order of detection
SortedMutant(s) == s

RECURSIVE Sorted(_)
\* sorted(new_dates): ascending, stable
Sorted(s) ==
    IF s = << >> THEN << >>
    ELSE Insert(Sorted(SubSeq(s, 1, Len(s) - 1)), s[Len(s)])

\* ee filterDate(args.last_date, END_DATE): start inclusive, end exclusive
InWindow(date, from, to) == ~StrLess(date, from) /\ StrLess(date, to)

\* line 125: date_str not in history['date_to_index']
IsNewDate(date_str, date_to_index) == date_str \notin DOMAIN date_to_index

RECURSIVE DetectLoopMutant(_, _, _)
\* faulty variant of DetectLoop: a later candidate of a date found in this run replaces its index
DetectLoopMutant(feats, date_to_index, found) ==
    IF feats = << >> THEN [date_to_index |-> date_to_index, new_dates |-> found]
    ELSE LET idx == Head(feats) IN
         IF idx = NoIndexFeature THEN DetectLoopMutant(Tail(feats), date_to_index, found)
         ELSE LET date_str == DateStr(idx) IN
              IF date_str \notin DOMAIN date_to_index
              THEN DetectLoopMutant(Tail(feats), Put(date_to_index, date_str, idx),
                                    Append(found, date_str))
              ELSE IF \E i \in 1..Len(found) : found[i] = date_str
              THEN DetectLoopMutant(Tail(feats), Put(date_to_index, date_str, idx), found)
              ELSE DetectLoopMutant(Tail(feats), date_to_index, found)

RECURSIVE DetectLoop(_, _, _)
\* lines 117-127: the loop over collection_info['features'], from left to right;
\* returns the updated date_to_index and the list new_dates before sorting
DetectLoop(feats, date_to_index, found) ==
    IF feats = << >> THEN [date_to_index |-> date_to_index, new_dates |-> found]
    ELSE LET idx == Head(feats) IN
         IF idx = NoIndexFeature THEN DetectLoop(Tail(feats), date_to_index, found)
         ELSE LET date_str == DateStr(idx) IN
              IF IsNewDate(date_str, date_to_index)
              THEN DetectLoop(Tail(feats), Put(date_to_index, date_str, idx),
                              Append(found, date_str))
              ELSE DetectLoop(Tail(feats), date_to_index, found)

\* lines 104-108: the history of a first run
EmptyHistory == [dates |-> << >>, date_to_index |-> EmptyDict, pixel_counts |-> EmptyDict]

\* faulty variant of RecordDate: a date without pixels gets no pixel_counts entry
RecordDateMutant(h, date, pixels) ==
    IF pixels = 0 THEN [h EXCEPT !.dates = Append(@, date)]
    ELSE [h EXCEPT !.dates = Append(@, date), !.pixel_counts = Put(@, date, pixels)]

\* lines 297-298: history['dates'].append(date); history['pixel_counts'][date] = date_pixels
RecordDate(h, date, pixels) ==
    [h EXCEPT !.dates = Append(@, date), !.pixel_counts = Put(@, date, pixels)]

\* faulty variant of ShowLayer: the first date of the run is the visible one
ShowLayerMutant(date, dates) == date = dates[1]

\* lines 190-191: show=(date == new_dates[-1])
ShowLayer(date, dates) == date = dates[Len(dates)]

\* lines 190-191: FeatureGroup(name=f'LAI_{date}', show=...)
NewLayer(variable, date, dates) ==
    [name |-> << variable, date >>, show |-> ShowLayer(date, dates),
     rects |-> << >>, outlines |-> 0]

\* folium.Map(...): a map without layers; title holds the title panel once added
NewMap == [layers |-> << >>, title |-> << >>]

\* lines 244-252, 270-278: folium.Rectangle(...).add_to(layer) for one pixel of
\* a field
AddRect(layer, field) == [layer EXCEPT !.rects = Append(@, field)]

\* A pixel feature of a sample, by what the loop body does with it:
\*   "px"    : geometry with a coordinate pair, and properties
\*   "empty" : geometry or properties missing or empty (lines 232-233, 258-259)
\*   "bad"   : geometry and properties not empty, and line 235 / 261 or the
\*             formatting that follows raises (no 'coordinates', not a pair,
\*             a value that is not a number)
PixelKinds == {"px", "empty", "bad"}

RECURSIVE RenderLoop(_, _, _)
\* lines 229-252 and 255-278: the loop over the pixel features of one sample.
\* An "empty" feature is passed over, a "px" feature adds a rectangle, a "bad"
\* feature raises: the loop stops there and the rectangles added so far stay.
RenderLoop(layer, field, pixels) ==
    IF pixels = << >> THEN [layer |-> layer, raised |-> FALSE]
    ELSE IF Head(pixels) = "bad" THEN [layer |-> layer, raised |-> TRUE]
    ELSE IF Head(pixels) = "empty" THEN RenderLoop(layer, field, Tail(pixels))
    ELSE RenderLoop(AddRect(layer, field), field, Tail(pixels))

\* lines 288-292: one outline per Polygon field
PolygonFields == {i \in 1..Len(Fields) : Fields[i] = "Polygon"}

RECURSIVE SumOver(_, _)
\* sum(d.values()) over the keys ks of d
SumOver(d, ks) ==
    IF ks = {} THEN 0
    ELSE LET k == CHOOSE x \in ks : TRUE IN d[k] + SumOver(d, ks \ {k})

\* the lists of at most MaxPx pixel features
PixelLists == UNION {[1..n -> PixelKinds] : n \in 0..MaxPx}

\* the NDVI request is not issued when the LAI request raised
NotRequested == [kind |-> "none", pixels |-> << >>]

\* what .sample(...).getInfo() can do (lines 209-213, 216-220): raise, return a
\* dict without 'features', or return a dict with a list of pixel features
Responses ==
    [kind : {"error", "no_features"}, pixels : {<< >>}]
    \cup [kind : {"features"}, pixels : PixelLists]

\* what the two requests of one field can do; the two samples are independent
Outcomes ==
    [lai : {r \in Responses : r.kind # "error"}, ndvi : Responses]
    \cup [lai : {r \in Responses : r.kind = "error"}, ndvi : {NotRequested}]

\* both samples hold the same number of pixels, all well formed, or no sample
\* is returned
Regular(o) ==
    \/ o.lai.kind # "features"
    \/ o.ndvi.kind # "features"
    \/ /\ Len(o.lai.pixels) = Len(o.ndvi.pixels)
       /\ \A i \in 1..Len(o.lai.pixels) : o.lai.pixels[i] = "px"
       /\ \A i \in 1..Len(o.ndvi.pixels) : o.ndvi.pixels[i] = "px"

\* lines 226-281: both samples hold 'features'; the LAI pixels are drawn, then
\* the NDVI pixels, then pixel_count = len(sample_lai['features']) is added to
\* date_pixels (line 280). A loop that raises leaves the rectangles added
\* before in the layers, and line 280 is not reached.
Render(o, lai_layer, ndvi_layer, field) ==
    LET pixel_count == Len(o.lai.pixels)
        L == RenderLoop(lai_layer, field, o.lai.pixels)
        N == RenderLoop(ndvi_layer, field, o.ndvi.pixels)
    IN  IF L.raised
        THEN [lai |-> L.layer, ndvi |-> ndvi_layer, status |-> "raised", n |-> 0]
        ELSE IF N.raised
        THEN [lai |-> L.layer, ndvi |-> N.layer, status |-> "raised", n |-> 0]
        ELSE [lai |-> L.layer, ndvi |-> N.layer, status |-> "ok", n |-> pixel_count]

\* faulty variant of TryBlock: the LAI pixels are drawn as soon as the LAI
\* sample is there, before the NDVI request is issued and the samples are tested
TryBlockMutant(o, lai_layer, ndvi_layer, field) ==
    IF o.lai.kind # "features"
    THEN [lai |-> lai_layer, ndvi |-> ndvi_layer, status |-> "failed", n |-> 0]
    ELSE IF o.ndvi.kind # "features"
    THEN [lai |-> RenderLoop(lai_layer, field, o.lai.pixels).layer,
          ndvi |-> ndvi_layer, status |-> "failed", n |-> 0]
    ELSE Render(o, lai_layer, ndvi_layer, field)

\* lines 207-285: the try block of one field. status is
\*   "failed" : a request raised (caught at line 283), or a sample has no
\*              'features' (line 222-224); nothing is drawn
\*   "raised" : a rendering loop raised (caught at line 283); the rectangles
\*              added before stay in the layers, line 280 is not reached
\*   "ok"     : line 280 is reached, pixel_count = len(sample_lai['features'])
\*              is added to date_pixels
TryBlock(o, lai_layer, ndvi_layer, field) ==
    IF o.lai.kind # "features" \/ o.ndvi.kind # "features"
    THEN [lai |-> lai_layer, ndvi |-> ndvi_layer, status |-> "failed", n |-> 0]
    ELSE Render(o, lai_layer, ndvi_layer, field)

\* the lists of at most MaxCands distinct features a query can return, in any order
FeatureLists ==
    LET Pool == Catalog \cup {NoIndexFeature} IN
    UNION { { s \in [1..n -> Pool] : \A i, j \in 1..n : i # j => s[i] # s[j] }
            : n \in 0..MaxCands }

\* the values --last-date is given: the default or an observation date
LastDates == {DefaultLastDate} \cup {DateStr(i) : i \in Catalog}

----------------------------------------------------------------------------
(* The script, one action per step *)

\* the process has ended: normally after the summary ("done"), by exit(0)
\* ("exited"), or by an uncaught exception or a kill ("failed")
Ended == {"done", "exited", "failed"}

NoDate == << >>
NoLayer == [name |-> << >>, show |-> FALSE, rects |-> << >>, outlines |-> 0]

Init ==
    /\ pc = "idle"
    /\ last_date = DefaultLastDate
    /\ features = << >>
    /\ history = EmptyHistory
    /\ new_dates = << >>
    /\ date_idx = 1
    /\ field_idx = 1
    /\ layer_lai = NoLayer
    /\ layer_ndvi = NoLayer
    /\ date_pixels = 0
    /\ m_lai = NewMap
    /\ m_ndvi = NewMap
    /\ file_hist = NoFile(EmptyHistory)
    /\ file_marker = NoFile(NoDate)
    /\ file_index = NoFile(NewMap)
    /\ file_ndvi = NoFile(NewMap)
    /\ faults = 0
    /\ samples = << >>
    /\ prev_hist = NoFile(EmptyHistory)
    /\ prev_marker = NoFile(NoDate)
    /\ prev_index = NoFile(NewMap)
    /\ prev_ndvi = NoFile(NewMap)

\* the runs a scheduler can start: a --last-date value and the features the image
\* service returns for the window [args.last_date, END_DATE) (lines 80-86)
Queries ==
    { q \in [last_date : LastDates, features : FeatureLists] :
        \A i \in 1..Len(q.features) :
            q.features[i] # NoIndexFeature
                => InWindow(DateStr(q.features[i]), q.last_date, END_DATE) }

\* lines 16-93: a new process starts, queries the images of its window and exits
\* when there is none
Query ==
    /\ pc = "idle"
    /\ \E q \in Queries :
         /\ last_date' = q.last_date
         /\ features' = q.features
         /\ pc' = IF Len(q.features) = 0 THEN "exited" ELSE "load"
    /\ UNCHANGED << history, new_dates, date_idx, field_idx, layer_lai, layer_ndvi,
                    date_pixels, m_lai, m_ndvi >>
    /\ UNCHANGED << files, ghosts >>

\* the ended process is gone and its memory with it; the files stay
ProcessEnd ==
    /\ pc \in Ended
    /\ pc' = "idle"
    /\ last_date' = DefaultLastDate
    /\ features' = << >>
    /\ history' = EmptyHistory
    /\ new_dates' = << >>
    /\ date_idx' = 1
    /\ field_idx' = 1
    /\ layer_lai' = NoLayer
    /\ layer_ndvi' = NoLayer
    /\ date_pixels' = 0
    /\ m_lai' = NewMap
    /\ m_ndvi' = NewMap
    /\ samples' = << >>
    /\ faults' = faults
    /\ prev_hist' = file_hist
    /\ prev_marker' = file_marker
    /\ prev_index' = file_index
    /\ prev_ndvi' = file_ndvi
    /\ UNCHANGED files

\* lines 99-108: the history a run starts from, json.load(f) when the file
\* exists and the empty history otherwise
LoadedHistory(file) == IF file.state = "absent" THEN EmptyHistory ELSE file.data

\* lines 98-109: json.load of the history file, or the empty history;
\* json.load raises on a file that does not hold a complete JSON document
LoadHistory ==
    /\ pc = "load"
    /\ IF file_hist.state = "truncated"
       THEN pc' = "failed" /\ UNCHANGED history
       ELSE /\ pc' = "detect"
            /\ history' = LoadedHistory(file_hist)
    /\ UNCHANGED << last_date, features, new_dates, date_idx, field_idx, layer_lai,
                    layer_ndvi, date_pixels, m_lai, m_ndvi >>
    /\ UNCHANGED << files, ghosts >>

\* faulty variant of Detect: the exit on an empty new_dates is missing
DetectMutant ==
    /\ pc = "detect"
    /\ LET r == DetectLoop(features, history.date_to_index, << >>) IN
         /\ history' = [history EXCEPT !.date_to_index = r.date_to_index]
         /\ new_dates' = Sorted(r.new_dates)
         /\ pc' = "init_maps"
    /\ UNCHANGED << last_date, features, date_idx, field_idx, layer_lai,
                    layer_ndvi, date_pixels, m_lai, m_ndvi >>
    /\ UNCHANGED << files, ghosts >>

\* lines 114-134: the new dates, sorted; exit when there is none
Detect ==
    /\ pc = "detect"
    /\ LET r == DetectLoop(features, history.date_to_index, << >>) IN
         /\ history' = [history EXCEPT !.date_to_index = r.date_to_index]
         /\ new_dates' = Sorted(r.new_dates)
         /\ pc' = IF Len(r.new_dates) = 0 THEN "exited" ELSE "init_maps"
    /\ UNCHANGED << last_date, features, date_idx, field_idx, layer_lai,
                    layer_ndvi, date_pixels, m_lai, m_ndvi >>
    /\ UNCHANGED << files, ghosts >>

\* lines 141-178: the field polygons are fetched, two empty maps are created
InitMaps ==
    /\ pc = "init_maps"
    /\ m_lai' = NewMap
    /\ m_ndvi' = NewMap
    /\ date_idx' = 1
    /\ pc' = "date"
    /\ UNCHANGED << last_date, features, history, new_dates, field_idx, layer_lai,
                    layer_ndvi, date_pixels >>
    /\ UNCHANGED << files, ghosts >>

\* lines 183-193: the next date of new_dates: its two layers, date_pixels = 0
BeginDate ==
    /\ pc = "date"
    /\ date_idx <= Len(new_dates)
    /\ layer_lai' = NewLayer("LAI", new_dates[date_idx], new_dates)
    /\ layer_ndvi' = NewLayer("NDVI", new_dates[date_idx], new_dates)
    /\ date_pixels' = 0
    /\ field_idx' = 1
    /\ pc' = "field"
    /\ UNCHANGED << last_date, features, history, new_dates, date_idx, m_lai, m_ndvi >>
    /\ UNCHANGED << files, ghosts >>

\* lines 195-197: a field that is no Polygon is passed over
SkipField ==
    /\ pc = "field"
    /\ field_idx <= Len(Fields)
    /\ Fields[field_idx] # "Polygon"
    /\ field_idx' = field_idx + 1
    /\ UNCHANGED << pc, last_date, features, history, new_dates, date_idx, layer_lai,
                    layer_ndvi, date_pixels, m_lai, m_ndvi >>
    /\ UNCHANGED << files, ghosts >>

\* lines 199-285: one Polygon field is sampled for LAI and NDVI and its pixels
\* are drawn; whatever the try block raises ends this field only
SampleField ==
    /\ pc = "field"
    /\ field_idx <= Len(Fields)
    /\ Fields[field_idx] = "Polygon"
    /\ \E o \in Outcomes :
         LET r == TryBlock(o, layer_lai, layer_ndvi, field_idx) IN
         /\ Regular(o) \/ faults < MaxFaults
         /\ faults' = IF Regular(o) THEN faults ELSE faults + 1
         /\ samples' = Append(samples, [date |-> new_dates[date_idx],
                                        field |-> field_idx,
                                        status |-> r.status, n |-> r.n])
         /\ layer_lai' = r.lai
         /\ layer_ndvi' = r.ndvi
         /\ date_pixels' = date_pixels + r.n
    /\ field_idx' = field_idx + 1
    /\ UNCHANGED << pc, last_date, features, history, new_dates, date_idx, m_lai, m_ndvi >>
    /\ UNCHANGED << files, prev_hist, prev_marker, prev_index, prev_ndvi >>

\* lines 288-292: the outline of every Polygon field is added to the layer
AddOutlines(layer) == [layer EXCEPT !.outlines = @ + Cardinality(PolygonFields)]

\* lines 287-300: the outlines are added to the two layers, the layers join the
\* maps, the date is recorded
EndDate ==
    /\ pc = "field"
    /\ field_idx > Len(Fields)
    /\ layer_lai' = AddOutlines(layer_lai)
    /\ layer_ndvi' = AddOutlines(layer_ndvi)
    /\ m_lai' = [m_lai EXCEPT !.layers = Append(@, layer_lai')]
    /\ m_ndvi' = [m_ndvi EXCEPT !.layers = Append(@, layer_ndvi')]
    /\ history' = RecordDate(history, new_dates[date_idx], date_pixels)
    /\ date_idx' = date_idx + 1
    /\ pc' = "date"
    /\ UNCHANGED << last_date, features, new_dates, field_idx, date_pixels >>
    /\ UNCHANGED << files, ghosts >>

\* lines 349-382: the title panels, from the history and new_dates[-1]
TitleOf(h, dates, with_pixels) ==
    LET all_dates == Sorted(h.dates) IN
    << [from |-> all_dates[1], to |-> all_dates[Len(all_dates)], days |-> Len(all_dates),
        total_pixels |-> IF with_pixels
                         THEN SumOver(h.pixel_counts, DOMAIN h.pixel_counts) ELSE 0,
        latest |-> dates[Len(dates)]] >>

\* lines 302-398: after the last date, layer control, titles and legend
AddTitles ==
    /\ pc = "date"
    /\ date_idx > Len(new_dates)
    /\ m_lai' = [m_lai EXCEPT !.title = TitleOf(history, new_dates, TRUE)]
    /\ m_ndvi' = [m_ndvi EXCEPT !.title = TitleOf(history, new_dates, FALSE)]
    /\ pc' = "save_lai"
    /\ UNCHANGED << last_date, features, history, new_dates, date_idx, field_idx,
                    layer_lai, layer_ndvi, date_pixels >>
    /\ UNCHANGED << files, ghosts >>

\* line 406: m_lai.save(map_lai_path)
SaveLaiMap ==
    /\ pc = "save_lai"
    /\ file_index' = Written(m_lai)
    /\ pc' = "save_ndvi"
    /\ UNCHANGED << locals, ghosts, file_hist, file_marker, file_ndvi >>

\* line 407: m_ndvi.save(map_ndvi_path)
SaveNdviMap ==
    /\ pc = "save_ndvi"
    /\ file_ndvi' = Written(m_ndvi)
    /\ pc' = "open_hist"
    /\ UNCHANGED << locals, ghosts, file_hist, file_marker, file_index >>

\* line 413: open(history_file, 'w') empties the file
OpenHistory ==
    /\ pc = "open_hist"
    /\ file_hist' = Truncated(EmptyHistory)
    /\ pc' = "dump_hist"
    /\ UNCHANGED << locals, ghosts, file_marker, file_index, file_ndvi >>

\* lines 414-415: json.dump writes the document, the with block closes the file
DumpHistory ==
    /\ pc = "dump_hist"
    /\ file_hist' = Written(history)
    /\ pc' = "open_marker"
    /\ UNCHANGED << locals, ghosts, file_marker, file_index, file_ndvi >>

\* line 418: open(STATE_FILE, 'w') empties the file
OpenMarker ==
    /\ pc = "open_marker"
    /\ file_marker' = Truncated(NoDate)
    /\ pc' = "write_marker"
    /\ UNCHANGED << locals, ghosts, file_hist, file_index, file_ndvi >>

\* faulty variant of MarkerValue: the first date of the run is written
MarkerValueMutant(dates) == dates[1]

\* line 419: f.write(new_dates[-1])
MarkerValue(dates) == dates[Len(dates)]

\* line 419: the marker is written and the file closed
WriteMarker ==
    /\ pc = "write_marker"
    /\ file_marker' = Written(MarkerValue(new_dates))
    /\ pc' = "summary"
    /\ UNCHANGED << locals, ghosts, file_hist, file_index, file_ndvi >>

\* lines 420-431: the summary is printed and the process ends normally
Summary ==
    /\ pc = "summary"
    /\ pc' = "done"
    /\ UNCHANGED << locals, ghosts, files >>

\* the process dies at any point of a run: killed, out of disk, or an
\* exception outside the try block (a service call, a file write, a print)
Crash ==
    /\ pc \notin Ended \cup {"idle"}
    /\ faults < MaxFaults
    /\ faults' = faults + 1
    /\ pc' = "failed"
    /\ UNCHANGED << locals, files, samples, prev_hist, prev_marker, prev_index, prev_ndvi >>

Next ==
    \/ Query \/ LoadHistory \/ Detect \/ InitMaps \/ BeginDate \/ SkipField
    \/ SampleField \/ EndDate \/ AddTitles \/ SaveLaiMap \/ SaveNdviMap
    \/ OpenHistory \/ DumpHistory \/ OpenMarker \/ WriteMarker \/ Summary
    \/ ProcessEnd

\* runs that are not interrupted
Spec == Init /\ [][Next]_vars

NextCrash == Next \/ Crash

\* runs that can be interrupted anywhere
SpecCrash == Init /\ [][NextCrash]_vars

----------------------------------------------------------------------------
(* Vocabulary of the properties *)

Elems(seq) == {seq[i] : i \in 1..Len(seq)}

\* the calendar order of two dates, by day number
Ordinal(d) == (d[1] * 12 + d[2]) * 31 + d[3]

\* the dates of the candidates of this run (the features that carry an index)
CandidateDates ==
    {DateStr(features[i]) : i \in {j \in 1..Len(features) : features[j] # NoIndexFeature}}

\* the keys of date_to_index in the history as it was on disk when the run started
KeysAtStart == DOMAIN prev_hist.data.date_to_index

\* the positions of the candidates of date d, in the order returned
PositionsOf(d) ==
    {i \in 1..Len(features) : features[i] # NoIndexFeature /\ DateStr(features[i]) = d}

Occurrences(seq, x) == Cardinality({i \in 1..Len(seq) : seq[i] = x})

RECURSIVE SumOk(_, _)
\* the sum of the LAI sample counts of the fields of date d whose sampling succeeded
SumOk(log, d) ==
    IF log = << >> THEN 0
    ELSE (IF Head(log).date = d /\ Head(log).status = "ok" THEN Head(log).n ELSE 0)
         + SumOk(Tail(log), d)

\* the run has computed new_dates and has not died
AfterDetect ==
    pc \in {"exited", "init_maps", "date", "field", "save_lai", "save_ndvi",
            "open_hist", "dump_hist", "open_marker", "write_marker", "summary",
            "done"}

\* the loop over new_dates is over
AfterDates ==
    pc \in {"save_lai", "save_ndvi", "open_hist", "dump_hist", "open_marker",
            "write_marker", "summary", "done"}

\* a step of the running process
RunStep ==
    \/ LoadHistory \/ Detect \/ InitMaps \/ BeginDate \/ SkipField \/ SampleField
    \/ EndDate \/ AddTitles \/ SaveLaiMap \/ SaveNdviMap \/ OpenHistory
    \/ DumpHistory \/ OpenMarker \/ WriteMarker \/ Summary

----------------------------------------------------------------------------
(* C1 *)

HistoryConsistent(h) ==
    /\ Elems(h.dates) = DOMAIN h.date_to_index
    /\ DOMAIN h.date_to_index = DOMAIN h.pixel_counts
    /\ \A i, j \in 1..Len(h.dates) : i # j => h.dates[i] # h.dates[j]

\* C1: whenever a run has completed successfully (after the marker write, or by
\* a clean exit), the history on disk is a complete document in which the
\* elements of dates, the keys of date_to_index and the keys of pixel_counts
\* are the same set and no date occurs twice in dates.
C1_HistoryConsistent ==
    pc \in {"done", "exited"} =>
        /\ file_hist.state # "truncated"
        /\ HistoryConsistent(file_hist.data)

\* a second productive run has completed: two dates recorded over two runs, one
\* of them with no pixel at all
C1_Witness ==
    /\ pc = "done"
    /\ prev_hist.state = "written"
    /\ Len(prev_hist.data.dates) = 1
    /\ Len(file_hist.data.dates) = 2
    /\ \E d \in DOMAIN file_hist.data.pixel_counts : file_hist.data.pixel_counts[d] = 0

----------------------------------------------------------------------------
(* C2 *)

HistoryExtends(old, new) ==
    /\ Elems(old.dates) \subseteq Elems(new.dates)
    /\ \A d \in DOMAIN old.date_to_index :
          d \in DOMAIN new.date_to_index /\ new.date_to_index[d] = old.date_to_index[d]
    /\ \A d \in DOMAIN old.pixel_counts :
          d \in DOMAIN new.pixel_counts /\ new.pixel_counts[d] = old.pixel_counts[d]

\* C2: when a run has ended, the dates of the history on disk include the dates
\* it held when the run started, and every date recorded then has the same
\* date_to_index value and the same pixel_counts value.
C2_AppendOnly ==
    pc \in Ended => HistoryExtends(prev_hist.data, file_hist.data)

\* a run has added a date to a history in which another capture of a recorded
\* date was among the candidates
C2_Witness ==
    /\ pc = "done"
    /\ Len(prev_hist.data.dates) >= 1
    /\ Len(file_hist.data.dates) > Len(prev_hist.data.dates)
    /\ \E i \in 1..Len(features) :
          /\ features[i] # NoIndexFeature
          /\ DateStr(features[i]) \in KeysAtStart
          /\ prev_hist.data.date_to_index[DateStr(features[i])] # features[i]

----------------------------------------------------------------------------
(* C3 *)

\* C3: once computed, new_dates holds exactly the dates of the candidates that
\* are no key of date_to_index in the history as loaded, each once, in ascending
\* calendar order.
C3_NewDatesExact ==
    AfterDetect =>
        /\ Elems(new_dates) = CandidateDates \ KeysAtStart
        /\ \A i, j \in 1..Len(new_dates) :
              i < j => Ordinal(new_dates[i]) < Ordinal(new_dates[j])

\* two new dates whose candidates were returned latest first
C3_Witness ==
    /\ pc = "init_maps"
    /\ Len(new_dates) = 2
    /\ features[1] # NoIndexFeature
    /\ DateStr(features[1]) = new_dates[2]

\* C3, the overlapping window: a candidate of a recorded date next to a new one
C3_WitnessOverlap ==
    /\ pc = "init_maps"
    /\ Len(new_dates) = 1
    /\ CandidateDates \cap KeysAtStart # {}

----------------------------------------------------------------------------
(* C4 *)

\* C4: after a successful run, a date that was new and had two or more
\* candidates occurs once in the recorded dates, and its date_to_index value is
\* the index of the first of these candidates in the order returned.
C4_FirstCandidateWins ==
    pc = "done" =>
        \A d \in CandidateDates \ KeysAtStart :
            Cardinality(PositionsOf(d)) >= 2 =>
                /\ Occurrences(file_hist.data.dates, d) = 1
                /\ d \in DOMAIN file_hist.data.date_to_index
                /\ \E i \in PositionsOf(d) :
                      /\ \A j \in PositionsOf(d) : i <= j
                      /\ file_hist.data.date_to_index[d] = features[i]

\* a run has recorded a date of two captures, the capture with the larger
\* suffix returned first
C4_Witness ==
    /\ pc = "done"
    /\ \E i, j \in 1..Len(features) :
          /\ i < j
          /\ features[i] # NoIndexFeature /\ features[j] # NoIndexFeature
          /\ DateStr(features[i]) = DateStr(features[j])
          /\ features[i][9] > features[j][9]
          /\ DateStr(features[i]) \notin KeysAtStart

----------------------------------------------------------------------------
(* C5 *)

FilesUntouched ==
    /\ file_hist = prev_hist
    /\ file_marker = prev_marker
    /\ file_index = prev_index
    /\ file_ndvi = prev_ndvi

\* C5: a run without candidates, or whose candidates all have recorded dates,
\* never gets past the detection of new dates: it issues no sampling request,
\* leaves the four files as they were, cannot die and, until it has exited by
\* exit(0), can take its next step.
C5_NoOpRun ==
    (pc # "idle" /\ CandidateDates \subseteq KeysAtStart) =>
        /\ pc \in {"load", "detect", "exited"}
        /\ pc # "exited" => ENABLED RunStep
        /\ samples = << >>
        /\ FilesUntouched

\* a run has exited although the service returned candidates: all of recorded dates
C5_Witness ==
    /\ pc = "exited"
    /\ CandidateDates # {}
    /\ CandidateDates \subseteq KeysAtStart
    /\ file_marker.state = "written"

\* C5, the empty candidate set after a productive run
C5_WitnessEmpty ==
    /\ pc = "exited"
    /\ features = << >>
    /\ file_hist.state = "written"

----------------------------------------------------------------------------
(* C6 *)

\* C6: after a process has died, the history file holds the complete history
\* from before the run or the complete history of this run.
C6_AtomicSave ==
    pc = "failed" =>
        \/ file_hist = prev_hist
        \/ file_hist = Written(history) /\ date_idx > Len(new_dates)

----------------------------------------------------------------------------
(* C7 *)

\* C7: whenever no process is in the middle of a run, a marker value that a run
\* wrote is a date of the history file.
C7_MarkerInHistory ==
    (pc \in Ended \cup {"idle"} /\ file_marker.state = "written") =>
        /\ file_hist.state = "written"
        /\ file_marker.data \in Elems(file_hist.data.dates)

----------------------------------------------------------------------------
(* C8 *)

\* C8 as stated: after a successful run that processed a new date, the marker
\* holds the greatest of all recorded dates.
C8_MarkerIsGreatestRecorded ==
    pc = "done" =>
        /\ file_marker.state = "written"
        /\ file_marker.data \in Elems(file_hist.data.dates)
        /\ \A d \in Elems(file_hist.data.dates) : Ordinal(d) <= Ordinal(file_marker.data)

\* C8 amended: after a successful run that processed a new date, the marker
\* holds the greatest of the dates this run processed.
C8_MarkerIsGreatestNew ==
    pc = "done" =>
        /\ file_marker.state = "written"
        /\ file_marker.data \in Elems(new_dates)
        /\ \A d \in Elems(new_dates) : Ordinal(d) <= Ordinal(file_marker.data)

\* a run of two new dates, returned latest first, has written the marker
C8_Witness ==
    /\ pc = "done"
    /\ Len(new_dates) = 2
    /\ features[1] # NoIndexFeature
    /\ DateStr(features[1]) = new_dates[2]
    /\ file_marker = Written(new_dates[2])

----------------------------------------------------------------------------
(* C9 *)

\* the (date, field) pairs the loops have passed
Passed ==
    {<<new_dates[i], f>> : i \in 1..(date_idx - 1), f \in PolygonFields}
    \cup (IF pc = "field"
          THEN {<<new_dates[date_idx], f>> : f \in {g \in PolygonFields : g < field_idx}}
          ELSE {})

SampledPairs == {<<samples[i].date, samples[i].field>> : i \in 1..Len(samples)}

\* the (date, field) pairs whose try block ended in one of the given ways
PairsOf(statuses) ==
    {<<samples[i].date, samples[i].field>> :
        i \in {j \in 1..Len(samples) : samples[j].status \in statuses}}

\* the fields whose sampling failed: the service raised on a request (caught
\* at line 283) or returned a sample without data (line 222-224)
FailedPairs == PairsOf({"failed"})

\* no rectangle of the layer belongs to one of the given (date, field) pairs
LayerClean(layer, pairs) ==
    \A k \in 1..Len(layer.rects) : <<layer.name[2], layer.rects[k]>> \notin pairs

\* the fields of the given pairs are skipped and nothing else is: the run
\* neither dies nor exits and can take its next step until the marker is
\* written; sampling was requested for every Polygon field of every date the
\* loops have passed; the fields of the pairs have no rectangle in a layer;
\* every recorded pixel count of a new date is the sum of the LAI sample counts
\* of the fields that succeeded
SkipsOnly(pairs) ==
    /\ pairs # {} =>
          /\ pc \notin {"failed", "exited", "idle"}
          /\ pc # "done" => ENABLED RunStep
    /\ (pc \in {"date", "field"} \/ AfterDates) => SampledPairs = Passed
    /\ LayerClean(layer_lai, pairs) /\ LayerClean(layer_ndvi, pairs)
    /\ \A i \in 1..Len(m_lai.layers) : LayerClean(m_lai.layers[i], pairs)
    /\ \A i \in 1..Len(m_ndvi.layers) : LayerClean(m_ndvi.layers[i], pairs)
    /\ (pc \in {"date", "field"} \/ AfterDates) =>
          \A i \in 1..(date_idx - 1) :
              /\ new_dates[i] \in DOMAIN history.pixel_counts
              /\ history.pixel_counts[new_dates[i]] = SumOk(samples, new_dates[i])
    /\ pc = "done" =>
          \A d \in Elems(new_dates) :
              /\ d \in DOMAIN file_hist.data.pixel_counts
              /\ file_hist.data.pixel_counts[d] = SumOk(samples, d)

\* C9: once a sampling has failed (the service raised, or returned no data),
\* the run neither dies nor exits, and can take its next step until the marker
\* is written; sampling was requested for every Polygon field of every date the
\* loops have passed, failed or not; a failed field has no rectangle in a
\* layer; and every recorded pixel count of a new date is the sum of the LAI
\* sample counts of the fields whose try block reached its end.
C9_FailureSkipsFieldOnly == SkipsOnly(FailedPairs)

\* a run of two dates is done in which the sampling of the first field of the
\* first date failed, and the later field and the later date brought pixels
C9_Witness ==
    /\ pc = "done"
    /\ Len(new_dates) = 2
    /\ <<new_dates[1], 1>> \in FailedPairs
    /\ file_hist.data.pixel_counts[new_dates[1]] > 0
    /\ file_hist.data.pixel_counts[new_dates[2]] > 0
    /\ file_marker = Written(new_dates[2])

\* not a sampling failure: both samples hold data and a rendering loop raised
\* after one of the field's pixels had been drawn; the rectangle stays
RaisedAfterRect ==
    \E i \in 1..Len(samples) :
        /\ samples[i].status = "raised"
        /\ samples[i].date = layer_lai.name[2]
        /\ \E k \in 1..Len(layer_lai.rects) : layer_lai.rects[k] = samples[i].field

----------------------------------------------------------------------------
(* C10 *)

OneLayerPerDate(m, variable) ==
    /\ Len(m.layers) = Len(new_dates)
    /\ \A i \in 1..Len(m.layers) : m.layers[i].name = <<variable, new_dates[i]>>
    /\ \A i, j \in 1..Len(m.layers) :
          i < j => Ordinal(m.layers[i].name[2]) < Ordinal(m.layers[j].name[2])
    /\ \A i \in 1..Len(m.layers) :
          m.layers[i].show <=>
              \A d \in Elems(new_dates) : Ordinal(d) <= Ordinal(m.layers[i].name[2])
    /\ Cardinality({i \in 1..Len(m.layers) : m.layers[i].show}) = 1

\* C10: when the loop over new_dates is over, each map holds one layer per date
\* of new_dates, in ascending date order, and the layer of the greatest date is
\* the one visible layer; the maps are saved so.
C10_LayersPerDate ==
    /\ AfterDates => OneLayerPerDate(m_lai, "LAI") /\ OneLayerPerDate(m_ndvi, "NDVI")
    /\ pc = "done" =>
          /\ file_index.state = "written" /\ OneLayerPerDate(file_index.data, "LAI")
          /\ file_ndvi.state = "written" /\ OneLayerPerDate(file_ndvi.data, "NDVI")

\* both maps of a run of two dates are saved
C10_Witness ==
    /\ pc = "done"
    /\ Len(new_dates) = 2
    /\ Len(file_index.data.layers) = 2
    /\ Len(file_ndvi.data.layers) = 2
    /\ ~file_index.data.layers[1].show

====
